---- MODULE Spec2Model ----
(***************************************************************************)
(* The epoll reactor of src/main.rs: main registers number_of_events       *)
(* non-blocking TcpStreams edge-triggered with an epoll instance, then     *)
(* loops  poll -> handle_event  until handled_events reaches               *)
(* number_of_events.  handle_event drains every ready stream with read()   *)
(* until Ok(0), WouldBlock or Interrupted, and returns the number of       *)
(* tokens it newly inserted into handled_tokens.                           *)
(*                                                                         *)
(* The peers and the kernel are the environment.  A "chunk" is the unit    *)
(* one read() call returns (at most the 4096-byte buffer of main.rs:45).   *)
(***************************************************************************)
EXTENDS Integers, Sequences, FiniteSets

\* number_of_events (main.rs:90 sets 200), scaled down
number_of_events == 2

\* capacity of events_buffer (main.rs:161 sets 20), scaled down
Capacity == 2

\* the most chunks the peers send in all (caps the counters sent and avail)
MaxChunks == 2

VARIABLES
    pc,                   \* where main is: "start" "setup" "wait" "read" "done" "failed"
                          \* ("polling": a caller of Poll::poll is inside the call)
    request_id,           \* loop variable of main.rs:96; Len(tcp_streams) once pushed
    raw_fd,               \* Registry.raw_fd, the epoll handle: "none" "open" "closed"
    closes,               \* how often close() was called on the epoll handle
    epoll_data,           \* kernel: per registered connection the token given to epoll_ctl
    sent,                 \* per connection: chunks the peer has sent so far
    avail,                \* per connection: chunks in the socket, readable right now
    closed,               \* per connection: the peer's FIN has arrived
    ready,                \* the epoll ready list: tokens with a pending notification
    events_buffer,        \* the batch the last poll returned (sequence of tokens)
    idx,                  \* position of handle_event's for loop in events_buffer
    handled_events_curr,  \* handle_event's local counter
    handled_events,       \* main's running total
    handled_tokens,       \* main's HashSet<usize>
    tokens_at_call,       \* history: handled_tokens when handle_event was called
    completions,          \* history: per token, how often it was counted as completed
    lastRead,             \* history: outcome of the latest read()
    lastPoll              \* history: arguments and result of the latest Poll::poll

vars == <<pc, request_id, raw_fd, closes, epoll_data, sent, avail, closed, ready, events_buffer, idx,
          handled_events_curr, handled_events, handled_tokens, tokens_at_call,
          completions, lastRead, lastPoll>>

Tokens == 0 .. number_of_events - 1

Min(a, b) == IF a < b THEN a ELSE b

\* connection t is open and has been added to the epoll instance under token t
Registered(t) == t < request_id

\* main is still running (its sockets are open)
Running == pc \in {"start", "setup", "wait", "polling", "read"}

RECURSIVE Sum(_, _)
Sum(f, S) == IF S = {} THEN 0
             ELSE LET x == CHOOSE y \in S : TRUE IN f[x] + Sum(f, S \ {x})

TotalSent == Sum(sent, Tokens)

----------------------------------------------------------------------------
(* handle_event's match arms, main.rs:48-74 *)

\* what read() on connection t can return in the current state
ReadOutcomes(t) ==
    (IF avail[t] > 0 THEN {"Data"}
     ELSE IF closed[t] THEN {"Zero"} ELSE {"WouldBlock"})
    \cup {"Interrupted", "Error"}

ReturnsErr_Absorbed(out) == FALSE

ReturnsErr_Interrupted(out) == out \in {"Error", "Interrupted"}

\* the arm  Err(error) => return Err(error)
ReturnsErr(out) == out = "Error"

BreaksSubLoop_BusyPoll(out) == out \in {"Zero", "Interrupted"}

\* the arms that end the sub-loop with break
BreaksSubLoop(out) == out \in {"Zero", "WouldBlock", "Interrupted"}

NewlyCompleted_NoDedupe(tokens, t, out) == IF out = "Zero" THEN 1 ELSE 0

\* Ok(0): handled_events_curr += 1 unless insert() finds the token present
NewlyCompleted(tokens, t, out) ==
    IF out = "Zero" /\ t \notin tokens THEN 1 ELSE 0

InsertToken_OnWouldBlock(tokens, t, out) ==
    IF out \in {"Zero", "WouldBlock"} THEN tokens \cup {t} ELSE tokens

\* Ok(0): handled_tokens.insert(resource_index)
InsertToken(tokens, t, out) ==
    IF out = "Zero" THEN tokens \cup {t} ELSE tokens

TotalOnErr_AddsPartial(total, curr) == total + curr

\* main.rs:180: on Err the ? operator returns before handled_events is added to
TotalOnErr(total, curr) == total

RegisterToken_OffByOne(id) == id + 1

\* main.rs:136: the token passed to register is request_id
RegisterToken(id) == id

DropsAtExit_Always(fd) == 1

(* poll.rs:38-62: the values whose Drop closes the handle when main's scope
   ends: the one Registry, which exists only if epoll_create succeeded *)
DropsAtExit(fd) == IF fd = "open" THEN 1 ELSE 0

\* main.rs:157, the test of the while loop
LoopTest(total) == IF total < number_of_events THEN "wait" ELSE "done"

AfterEmptyBatch_Breaks(total) == "done"

\* main.rs:174-177: continue, which tests the while loop again
AfterEmptyBatch(total) == LoopTest(total)

----------------------------------------------------------------------------
(* Poll::poll, poll.rs:68-88 *)

\* Option<i32>
None == [some |-> FALSE, ms |-> 0]

Some(n) == [some |-> TRUE, ms |-> n]

\* the timeouts a caller passes: None, Some(0) and a positive one
Timeouts == {None, Some(0), Some(1)}

NoPoll == [timeout |-> None, cap |-> 0, res |-> -1]

TimeoutArg_ZeroBlocks(timeout) ==
    IF timeout.some /\ timeout.ms > 0 THEN timeout.ms ELSE -1

TimeoutArg_NoneIsZero(timeout) == IF timeout.some THEN timeout.ms ELSE 0

\* poll.rs:71: timeout.unwrap_or(-1)
TimeoutArg(timeout) == IF timeout.some THEN timeout.ms ELSE -1

MaxEvents_OneMore(cap) == cap + 1

\* poll.rs:73: events.capacity() as i32
MaxEvents(cap) == cap

----------------------------------------------------------------------------
Init ==
    /\ pc = "start"
    /\ request_id = 0
    /\ raw_fd = "none"
    /\ closes = 0
    /\ epoll_data = [t \in Tokens |-> -1]
    /\ sent = [t \in Tokens |-> 0]
    /\ avail = [t \in Tokens |-> 0]
    /\ closed = [t \in Tokens |-> FALSE]
    /\ ready = {}
    /\ events_buffer = <<>>
    /\ idx = 1
    /\ handled_events_curr = 0
    /\ handled_events = 0
    /\ handled_tokens = {}
    /\ tokens_at_call = {}
    /\ completions = [t \in Tokens |-> 0]
    /\ lastRead = "none"
    /\ lastPoll = NoPoll

program_vars == <<pc, request_id, raw_fd, closes, epoll_data, events_buffer, idx, handled_events_curr,
                  handled_events, handled_tokens, tokens_at_call, completions,
                  lastRead, lastPoll>>

peer_vars == <<sent, avail, closed>>

(* main.rs:81-186 with poll.rs:38-47: when main returns or unwinds, its
   locals are dropped, and with them the Registry that Poll owns; the step
   that sets pc to "done" or "failed" includes that *)
ScopeEnd ==
    LET n == IF pc' \in {"done", "failed"} THEN DropsAtExit(raw_fd) ELSE 0 IN
    /\ closes' = closes + n
    /\ raw_fd' = IF n > 0 /\ raw_fd = "open" THEN "closed" ELSE raw_fd

(* main.rs:85 and poll.rs:54-62: Poll::new; epoll_create may fail, and then
   expect() panics *)
PollNew ==
    /\ pc = "start"
    /\ \E ok \in BOOLEAN :
        /\ pc' = IF ok THEN "setup" ELSE "failed"
        /\ IF ok THEN raw_fd' = "open" /\ closes' = closes ELSE ScopeEnd
    /\ UNCHANGED <<request_id, epoll_data, events_buffer, idx, handled_events_curr,
                   handled_events, handled_tokens, tokens_at_call, completions,
                   lastRead, lastPoll, ready>>
    /\ UNCHANGED peer_vars

(* main.rs:96-141 and poll.rs:20-35, one iteration of the setup loop: connect,
   set_nonblocking, write_all, epoll_ctl(ADD) under token request_id, push *)
Register ==
    /\ pc = "setup"
    /\ epoll_data' = [epoll_data EXCEPT ![request_id] = RegisterToken(request_id)]
    /\ request_id' = request_id + 1
    /\ pc' = IF request_id + 1 < number_of_events THEN "setup" ELSE LoopTest(handled_events)
    /\ ScopeEnd
    /\ UNCHANGED <<events_buffer, idx, handled_events_curr, handled_events,
                   handled_tokens, tokens_at_call, completions, lastRead, lastPoll,
                   ready>>
    /\ UNCHANGED peer_vars

(* main.rs:104, 120-127, 137-139: connect, set_nonblocking, write_all or
   register fails and expect() / unwrap_or_else panics; main unwinds *)
RegisterFail ==
    /\ pc = "setup"
    /\ pc' = "failed"
    /\ ScopeEnd
    /\ UNCHANGED <<request_id, epoll_data, events_buffer, idx, handled_events_curr,
                   handled_events, handled_tokens, tokens_at_call, completions,
                   lastRead, lastPoll, ready>>
    /\ UNCHANGED peer_vars

\* the batches epoll_wait can fill: m distinct tokens of the ready list
Batches(S, m) ==
    {s \in [1 .. m -> S] : \A i, j \in 1 .. m : i # j => s[i] # s[j]}

(* the kernel's epoll_wait(epfd, events, maxevents, timeout): the batches it
   may fill and return.  With something ready it reports at once, up to
   maxevents descriptors; with nothing ready it waits for ever under timeout
   -1 (no result) and otherwise reports 0 descriptors, at once under timeout 0
   and when the time is up under a positive one *)
EpollWaitResults(rdy, maxevents, tmo) ==
    IF rdy # {} THEN Batches(rdy, Min(Cardinality(rdy), maxevents))
    ELSE IF tmo = -1 THEN {}
    ELSE {<<>>}

\* epoll_wait returns -1 (EINTR): only out of a wait, with nothing ready
EpollWaitFails(rdy, tmo) == rdy = {} /\ tmo # 0

(* poll.rs:68-88, Poll::poll returning Ok(()): epoll_wait on a buffer of
   capacity cap; events.set_len(res).  The descriptors reported leave the
   ready list (edge-triggered) *)
PollOk(cap, timeout) ==
    \E batch \in EpollWaitResults(ready, MaxEvents(cap), TimeoutArg(timeout)) :
        /\ events_buffer' = [i \in 1 .. Len(batch) |-> epoll_data[batch[i]]]
        /\ ready' = ready \ {batch[i] : i \in 1 .. Len(batch)}
        /\ lastPoll' = [timeout |-> timeout, cap |-> cap, res |-> Len(batch)]

(* main.rs:161-180, one iteration of the outer loop up to the call of
   handle_event: a fresh events_buffer, poll, and continue on an empty batch *)
PollThenDispatch(timeout) ==
    /\ pc = "wait"
    /\ PollOk(Capacity, timeout)
    /\ idx' = 1
    /\ handled_events_curr' = 0
    /\ IF events_buffer' = <<>>
       THEN /\ pc' = AfterEmptyBatch(handled_events)
            /\ UNCHANGED tokens_at_call
       ELSE /\ pc' = "read"
            /\ tokens_at_call' = handled_tokens
    /\ ScopeEnd
    /\ UNCHANGED <<request_id, epoll_data, handled_events, handled_tokens,
                   completions, lastRead>>
    /\ UNCHANGED peer_vars

\* main.rs:172: main polls with timeout None
Poll == PollThenDispatch(None)

(* poll.rs:77-79 and main.rs:172: epoll_wait fails, poll returns Err and the
   ? operator ends main *)
PollFail ==
    /\ pc = "wait"
    /\ EpollWaitFails(ready, TimeoutArg(None))
    /\ pc' = "failed"
    /\ ScopeEnd
    /\ UNCHANGED <<request_id, epoll_data, events_buffer, idx, handled_events_curr,
                   handled_events, handled_tokens, tokens_at_call, completions,
                   lastRead, lastPoll, ready>>
    /\ UNCHANGED peer_vars

(* main.rs:38-78 and 180: one read() of the sub-loop and the arm it selects;
   a break moves to the next event or, after the last one, returns
   Ok(handled_events_curr) to main, which adds it and tests the loop.
   tcp_streams[resource_index] panics on an index that is no slot *)
Read ==
    /\ pc = "read"
    /\ LET t == events_buffer[idx] IN
       IF t \notin 0 .. request_id - 1
       THEN /\ pc' = "failed"
            /\ UNCHANGED <<events_buffer, idx, handled_events_curr, handled_events,
                           handled_tokens, completions, lastRead, avail>>
       ELSE
       \E out \in ReadOutcomes(t) :
        LET c == NewlyCompleted(handled_tokens, t, out) IN
        /\ lastRead' = out
        /\ avail' = IF out = "Data" THEN [avail EXCEPT ![t] = @ - 1] ELSE avail
        /\ handled_tokens' = InsertToken(handled_tokens, t, out)
        /\ completions' = [completions EXCEPT ![t] = @ + c]
        /\ IF ReturnsErr(out)
           THEN /\ pc' = "failed"
                /\ handled_events' = TotalOnErr(handled_events, handled_events_curr)
                /\ UNCHANGED <<events_buffer, idx, handled_events_curr>>
           ELSE IF ~BreaksSubLoop(out)
           THEN /\ UNCHANGED <<pc, events_buffer, idx, handled_events_curr, handled_events>>
           ELSE IF idx < Len(events_buffer)
           THEN /\ idx' = idx + 1
                /\ handled_events_curr' = handled_events_curr + c
                /\ UNCHANGED <<pc, events_buffer, handled_events>>
           ELSE /\ handled_events' = handled_events + handled_events_curr + c
                /\ handled_events_curr' = 0
                /\ events_buffer' = <<>>
                /\ idx' = 1
                /\ pc' = LoopTest(handled_events + handled_events_curr + c)
    /\ ScopeEnd
    /\ UNCHANGED <<request_id, epoll_data, tokens_at_call, sent, closed, ready, lastPoll>>

----------------------------------------------------------------------------
(* the environment: peers and kernel *)

\* a chunk of the response arrives: the stream gets a notification
PeerSend(t) ==
    /\ Running
    /\ Registered(t)
    /\ ~closed[t]
    /\ TotalSent < MaxChunks
    /\ sent' = [sent EXCEPT ![t] = @ + 1]
    /\ avail' = [avail EXCEPT ![t] = @ + 1]
    /\ ready' = ready \cup {t}
    /\ UNCHANGED closed
    /\ UNCHANGED program_vars

\* the peer closes after its last chunk (Connection: close): end of stream
PeerClose(t) ==
    /\ Running
    /\ Registered(t)
    /\ ~closed[t]
    /\ closed' = [closed EXCEPT ![t] = TRUE]
    /\ ready' = ready \cup {t}
    /\ UNCHANGED <<sent, avail>>
    /\ UNCHANGED program_vars

\* a spurious or repeated notification for a registered stream
Spurious(t) ==
    /\ Running
    /\ Registered(t)
    /\ t \notin ready
    /\ ready' = ready \cup {t}
    /\ UNCHANGED peer_vars
    /\ UNCHANGED program_vars

Peer == \E t \in Tokens : PeerSend(t) \/ PeerClose(t)

Notify == \E t \in Tokens : Spurious(t)

Setup == PollNew \/ Register \/ RegisterFail

Next == Setup \/ Poll \/ PollFail \/ Read \/ Peer \/ Notify

Spec == Init /\ [][Next]_vars

\* the run under notifications that are edge-triggered only: one per arrival
EdgeNext == Setup \/ Poll \/ PollFail \/ Read \/ Peer

(* The scheduling the code has: main is one running thread, so its next
   step is always taken, and every peer eventually closes its stream.  A
   failing epoll_wait may or may not happen. *)
FairSpec ==
    /\ Init /\ [][EdgeNext]_vars
    /\ WF_vars(PollNew)
    /\ WF_vars(Register)
    /\ WF_vars(Poll)
    /\ WF_vars(Read)
    /\ \A t \in Tokens : WF_vars(PeerClose(t))

(* handle_event (main.rs:31-36) called on an arbitrary slice of events, a
   token possibly more than once, as a caller other than the kernel may *)
Dispatch ==
    /\ pc = "wait"
    /\ \E m \in 1 .. Capacity : \E batch \in [1 .. m -> Tokens] :
        events_buffer' = batch
    /\ idx' = 1
    /\ handled_events_curr' = 0
    /\ tokens_at_call' = handled_tokens
    /\ pc' = "read"
    /\ UNCHANGED <<request_id, raw_fd, closes, epoll_data, handled_events,
                   handled_tokens, completions, lastRead, lastPoll, ready>>
    /\ UNCHANGED peer_vars

HarnessNext == Setup \/ Dispatch \/ Read \/ Peer

HarnessSpec == Init /\ [][HarnessNext]_vars

(* Poll::poll (poll.rs:68) called by a caller that chooses the capacity of the
   buffer and the timeout, and does not read the streams *)
PollCall ==
    /\ pc = "wait"
    /\ \E cap \in 1 .. Capacity : \E timeout \in Timeouts :
        lastPoll' = [timeout |-> timeout, cap |-> cap, res |-> -1]
    /\ pc' = "polling"
    /\ UNCHANGED <<request_id, raw_fd, closes, epoll_data, events_buffer, idx, handled_events_curr,
                   handled_events, handled_tokens, tokens_at_call, completions,
                   lastRead, ready>>
    /\ UNCHANGED peer_vars

\* poll.rs:75-87: epoll_wait returns res >= 0 and the call returns Ok(())
PollReturn ==
    /\ pc = "polling"
    /\ PollOk(lastPoll.cap, lastPoll.timeout)
    /\ pc' = "wait"
    /\ UNCHANGED <<request_id, raw_fd, closes, epoll_data, idx, handled_events_curr, handled_events,
                   handled_tokens, tokens_at_call, completions, lastRead>>
    /\ UNCHANGED peer_vars

\* poll.rs:77-79: epoll_wait returns res < 0 and the call returns Err
PollRaise ==
    /\ pc = "polling"
    /\ EpollWaitFails(ready, TimeoutArg(lastPoll.timeout))
    /\ pc' = "failed"
    /\ ScopeEnd
    /\ UNCHANGED <<request_id, epoll_data, events_buffer, idx, handled_events_curr,
                   handled_events, handled_tokens, tokens_at_call, completions,
                   lastRead, lastPoll, ready>>
    /\ UNCHANGED peer_vars

PollNext == Setup \/ PollCall \/ PollReturn \/ PollRaise \/ Peer \/ Notify

PollSpec == Init /\ [][PollNext]_vars

\* the kernel lets a call return once it can
PollFairSpec == PollSpec /\ WF_vars(PollReturn)

(* main's outer loop (main.rs:157-181) with the timeout that main.rs:172
   passes to poll left open, so that a wait can return with nothing ready *)
PollTimed == \E timeout \in Timeouts : PollThenDispatch(timeout)

TimedNext == Setup \/ PollTimed \/ Read \/ Peer

TimedSpec == Init /\ [][TimedNext]_vars

----------------------------------------------------------------------------
(* vocabulary of the properties *)

\* the step is main's poll returning Ok (and not a step of the environment)
PollStep ==
    /\ pc = "wait"
    /\ pc' # "failed"
    /\ ready' \subseteq ready
    /\ UNCHANGED peer_vars

\* the token whose connection the sub-loop is reading
CurTok == events_buffer[idx]

\* the step is a read() of handle_event (and not a step of the environment)
ReadStep ==
    /\ pc = "read"
    /\ \/ pc' # pc
       \/ idx' # idx
       \/ events_buffer' # events_buffer
       \/ lastRead' # lastRead
       \/ \E t \in Tokens : avail'[t] < avail[t]

ReadReturns(out) == ReadStep /\ lastRead' = out

\* the step ends the sub-loop of the current descriptor
LeavesConnection == pc' # "read" \/ idx' # idx

\* completions counted so far: main's total plus the running batch's count
Tally == handled_events + handled_events_curr

\* non-empty reads performed on connection t so far
NonEmptyReads(t) == sent[t] - avail[t]

----------------------------------------------------------------------------
\* C1: whenever the outer loop of main terminates normally, the running
\* total handled_events equals number_of_events exactly, whatever spurious
\* or repeated notifications were delivered.
C1_ExactTotal == pc = "done" => handled_events = number_of_events

\* the loop has ended with both chunks delivered and a notification for an
\* already completed token still pending
C1_Witness ==
    /\ pc = "done"
    /\ handled_events = number_of_events
    /\ TotalSent = MaxChunks
    /\ ready # {}

\* C2: a zero-length read on a token that is already in handled_tokens adds
\* nothing to handle_event's count, to main's total or to the set, in the
\* batch that completed the token as well as in a later one.
C2_CompletedAbsorbing ==
    [][(ReadReturns("Zero") /\ CurTok \in handled_tokens)
        => /\ Tally' = Tally
           /\ handled_tokens' = handled_tokens
           /\ completions' = completions]_vars

\* the first descriptor of the batch was a token completed by an earlier
\* batch; its read returned zero bytes and the batch's count is still 0
C2_Witness ==
    /\ pc = "read"
    /\ idx = 2
    /\ lastRead = "Zero"
    /\ events_buffer[1] \in tokens_at_call
    /\ handled_events_curr = 0
    /\ handled_events = 1

\* C3: every run eventually ends, with all connections counted or with an
\* abort; it does not stay in the wait/dispatch loop for ever.
C3_EventuallyEnds == <>(pc \in {"done", "failed"})

\* C4: the sub-loop goes on after a non-empty read and is left only by a
\* read that reports WouldBlock or zero bytes, so that a dispatch that goes
\* on leaves no readable chunk behind in the connection it leaves.
C4_LeavesOnlyDrained ==
    [][(ReadStep /\ pc' # "failed")
        => /\ lastRead' = "Data" => ~LeavesConnection
           /\ LeavesConnection => /\ lastRead' \in {"WouldBlock", "Zero"}
                                  /\ avail[CurTok] = 0]_vars

\* C5: a connection whose peer sent k chunks and closed is marked completed
\* by exactly one zero-length read, which comes after exactly k non-empty
\* reads; at normal termination this holds of every connection.
C5_ChunksThenTerminal ==
    \A t \in Tokens :
        /\ completions[t] <= 1
        /\ NonEmptyReads(t) <= sent[t]
        /\ completions[t] = 1 => closed[t] /\ NonEmptyReads(t) = sent[t]
        /\ pc = "done" => completions[t] = 1

\* a connection delivered two chunks; they were read and the terminal read
\* marked it, and the run has terminated
C5_Witness ==
    /\ pc = "done"
    /\ \E t \in Tokens : sent[t] = 2 /\ NonEmptyReads(t) = 2 /\ completions[t] = 1

\* C6: the count handle_event returns with Ok is the number of distinct
\* tokens that were not in handled_tokens when it was called and are in it
\* when it returns, also when a token occurs twice in the batch.
C6_CountsNewlyCompleted ==
    [][(ReadStep /\ pc' \in {"wait", "done"})
        => handled_events' - handled_events
             = Cardinality(handled_tokens' \ tokens_at_call)]_vars

\* the batch names the same token twice: its first descriptor completed it
\* and was counted once
C6_Witness ==
    /\ pc = "read"
    /\ idx = 2
    /\ events_buffer[1] = events_buffer[2]
    /\ lastRead = "Zero"
    /\ handled_events_curr = 1
    /\ events_buffer[1] \in handled_tokens \ tokens_at_call

\* C7: handled_tokens only grows, and a token enters it only by a
\* zero-length read on its own connection, at end of stream.
C7_InsertOnly ==
    [][/\ handled_tokens \subseteq handled_tokens'
       /\ \A t \in handled_tokens' \ handled_tokens :
            /\ ReadReturns("Zero")
            /\ t = CurTok
            /\ closed[t] /\ avail[t] = 0]_vars

\* the first descriptor's zero-length read has just inserted its token
C7_Witness ==
    /\ pc = "read"
    /\ idx = 2
    /\ lastRead = "Zero"
    /\ handled_tokens \ tokens_at_call = {events_buffer[1]}

\* C8: a read that reports WouldBlock ends the sub-loop of its token, marks
\* and counts nothing, and leaves no descriptor of that token in the rest of
\* the batch: the connection is read again only after a later wait.
C8_WouldBlockParks ==
    [][ReadReturns("WouldBlock")
        => /\ handled_tokens' = handled_tokens
           /\ Tally' = Tally
           /\ completions' = completions
           /\ LeavesConnection
           /\ ~(pc' = "read" /\ \E j \in idx' .. Len(events_buffer') :
                                    events_buffer'[j] = CurTok)]_vars

\* after a WouldBlock the reactor sits in wait with nothing ready
C8_Witness ==
    /\ pc = "wait"
    /\ lastRead = "WouldBlock"
    /\ ready = {}
    /\ handled_tokens = {}

\* C9: a read that reports Interrupted ends the sub-loop like WouldBlock:
\* nothing is marked, counted or consumed, handle_event does not fail but
\* goes on to the next descriptor or returns Ok.
C9_InterruptedAbsorbed ==
    [][ReadReturns("Interrupted")
        => /\ handled_tokens' = handled_tokens
           /\ Tally' = Tally
           /\ avail' = avail
           /\ pc' # "failed"
           /\ IF idx < Len(events_buffer)
              THEN pc' = "read" /\ idx' = idx + 1 /\ events_buffer' = events_buffer
              ELSE pc' \in {"wait", "done"} /\ handled_events' = Tally]_vars

\* the first descriptor's read was interrupted and handle_event went on to
\* the second descriptor
C9_Witness ==
    /\ pc = "read"
    /\ idx = 2
    /\ lastRead = "Interrupted"
    /\ handled_events_curr = 0

\* C10: any other read error ends handle_event and main at once: no later
\* descriptor is read, the total is not changed, wait is not called again.
C10_ErrorAborts ==
    /\ [][ReadReturns("Error") => pc' = "failed" /\ handled_events' = handled_events]_vars
    /\ [][pc = "failed" => UNCHANGED <<pc, idx, events_buffer, lastRead, avail,
                                       handled_events, handled_tokens>>]_vars

\* the run failed on a read while a later descriptor of the batch was unread
C10_Witness ==
    /\ pc = "failed"
    /\ lastRead = "Error"
    /\ idx < Len(events_buffer)

\* C11: Poll::poll called with timeout Some(0) while nothing is ready does
\* not block and does not fail: its return is possible at once, and it
\* returns Ok with an empty batch.
C11_ZeroTimeoutReturns ==
    /\ [](pc = "polling" /\ lastPoll.timeout = Some(0)
            => ENABLED PollReturn /\ ~ENABLED PollRaise)
    /\ [][(pc = "polling" /\ lastPoll.timeout = Some(0) /\ ready = {}
             /\ pc' # "polling")
          => /\ pc' = "wait"
             /\ events_buffer' = <<>>
             /\ lastPoll'.res = 0]_vars

\* on a port with every connection registered and none ready, the call with
\* Some(0) has returned 0 descriptors
C11_Witness ==
    /\ pc = "wait"
    /\ request_id = number_of_events
    /\ lastPoll.timeout = Some(0)
    /\ lastPoll.res = 0
    /\ events_buffer = <<>>
    /\ ready = {}

C13_BatchWithinCapacity ==
    [][(pc = "polling" /\ pc' = "wait")
        => LET reported == {events_buffer'[i] : i \in 1 .. Len(events_buffer')} IN
           /\ Len(events_buffer') = lastPoll'.res
           /\ Cardinality(reported) = Len(events_buffer')
           /\ lastPoll'.res = Min(Cardinality(ready), lastPoll.cap)
           /\ Len(events_buffer') <= lastPoll.cap
           /\ ready' \subseteq ready
           /\ reported = {epoll_data[c] : c \in ready \ ready'}]_vars

\* a call on a buffer of capacity 1 has returned 1 descriptor while a
\* second ready descriptor is still pending
C13_Witness ==
    /\ pc = "wait"
    /\ lastPoll.cap = 1
    /\ lastPoll.res = 1
    /\ Len(events_buffer) = 1
    /\ ready # {}
    /\ events_buffer[1] \notin ready

\* C14: the epoll handle that Poll::new acquires is closed exactly once on
\* every way out of main (the loop ends, poll or handle_event returns an
\* error, setup fails); it is never closed twice, every step that uses it
\* finds it open, and nothing is closed when epoll_create itself failed.
C14_ReleasedOnce ==
    /\ closes <= 1
    /\ pc = "start" => raw_fd = "none" /\ closes = 0
    /\ pc \in {"setup", "wait", "polling", "read"} => raw_fd = "open" /\ closes = 0
    /\ pc = "done" => raw_fd = "closed" /\ closes = 1
    /\ pc = "failed" => \/ raw_fd = "closed" /\ closes = 1
                        \/ raw_fd = "none" /\ closes = 0 /\ request_id = 0

\* setup has failed after the first connection was registered, and the
\* handle has been closed
C14_Witness ==
    /\ pc = "failed"
    /\ request_id = 1
    /\ lastPoll = NoPoll
    /\ raw_fd = "closed"
    /\ closes = 1

\* C15: a descriptor that poll returns carries the token its connection was
\* registered with, and handle_event indexes tcp_streams by it to that same
\* connection: the tokens are the indices 0 .. N-1 in the order of
\* registration, the connection of token i is the one pushed at slot i, and
\* no token in a batch lies outside the slots.
C15_TokenIsSlot ==
    /\ [](/\ \A c \in Tokens : epoll_data[c] = IF Registered(c) THEN c ELSE -1
          /\ \A i \in 1 .. Len(events_buffer) :
                /\ events_buffer[i] \in 0 .. request_id - 1
                /\ events_buffer[i] \in 0 .. number_of_events - 1)
    /\ [][(pc = "wait" /\ pc' = "read")
            => \A i \in 1 .. Len(events_buffer') :
                /\ events_buffer'[i] \in ready \ ready'
                /\ epoll_data[events_buffer'[i]] = events_buffer'[i]]_vars
    /\ [][ReadStep
            => /\ Registered(CurTok)
               /\ epoll_data[CurTok] = CurTok
               /\ \A c \in Tokens : avail'[c] < avail[c] => c = CurTok]_vars

\* a batch of two descriptors is being dispatched, and the read of the
\* second one has taken a chunk from the connection registered second
C15_Witness ==
    /\ pc = "read"
    /\ Len(events_buffer) = 2
    /\ idx = 2
    /\ events_buffer[2] = 1
    /\ epoll_data[1] = 1
    /\ lastRead = "Data"
    /\ sent[1] = 1 /\ avail[1] = 0

\* C16: a poll that returns no descriptor does not end the run: main reads
\* from no connection, leaves handled_events and handled_tokens as they
\* were, and is back at the top of the outer loop, about to poll again.
C16_EmptyBatchRetries ==
    [][(PollStep /\ lastPoll'.res = 0)
        => /\ pc' = "wait"
           /\ LoopTest(handled_events') = "wait"
           /\ raw_fd' = "open"
           /\ events_buffer' = <<>>
           /\ ready' = ready
           /\ UNCHANGED <<handled_events, handled_tokens, tokens_at_call,
                          completions, lastRead, avail>>]_vars

\* a poll with timeout 0 has returned no descriptor after one of the two
\* connections completed; main is waiting again
C16_Witness ==
    /\ pc = "wait"
    /\ lastPoll.timeout = Some(0)
    /\ lastPoll.res = 0
    /\ handled_events = 1
    /\ Cardinality(handled_tokens) = 1
    /\ raw_fd = "open"

\* C17: at the top of each iteration of main's outer loop and when the loop
\* has ended, handled_events is the number of tokens in handled_tokens, and
\* neither exceeds number_of_events.
C17_TotalIsSetSize ==
    pc \in {"wait", "done"}
        => /\ handled_events = Cardinality(handled_tokens)
           /\ handled_events <= number_of_events
           /\ Cardinality(handled_tokens) <= number_of_events

\* main is about to poll again after a batch in which the second
\* connection completed
C17_Witness ==
    /\ pc = "wait"
    /\ lastPoll.res >= 1
    /\ handled_tokens = {1}
    /\ handled_events = 1

\* C18: when handle_event returns an error at some descriptor of a batch,
\* the completions it counted at earlier descriptors of that batch are
\* lost: main's handled_events is what it was before the batch, while the
\* tokens of those completions are in handled_tokens.
C18_PartialCountDiscarded ==
    (pc = "failed" /\ lastRead = "Error")
        => /\ handled_events = Cardinality(tokens_at_call)
           /\ tokens_at_call \subseteq handled_tokens
           /\ Cardinality(handled_tokens \ tokens_at_call) = handled_events_curr
           /\ Cardinality(handled_tokens) = handled_events + handled_events_curr

\* the first descriptor of a batch completed its connection, the read at
\* the second one failed: one token is in the set and the total is 0
C18_Witness ==
    /\ pc = "failed"
    /\ lastRead = "Error"
    /\ idx = 2
    /\ handled_events_curr = 1
    /\ handled_events = 0
    /\ handled_tokens = {events_buffer[1]}

====
